---- MODULE Spec2Model ----
(***************************************************************************)
(* flack: advisory whole-file locking through flock(2).                    *)
(*                                                                         *)
(* The library (src/src/lib.rs) is a stateless wrapper: lock_file and      *)
(* unlock_file compose a flag word and hand it to flogic, which makes the   *)
(* native call and turns its return value into a Result.  The lock state   *)
(* lives in the kernel, keyed by open file description; it is modelled     *)
(* here for one file and NumHolders independent opens of it, following     *)
(* the flock(2) semantics the source refers to (lib.rs:58).                 *)
(***************************************************************************)
EXTENDS Integers, Sequences, FiniteSets, TLC

\* Number of independent opens ("holders") of the one lock file.
NumHolders == 3

Holders == 1..NumHolders

LOCK_SH == 1
LOCK_EX == 2
LOCK_NB == 4
LOCK_UN == 8

LockTypes  == {"Exclusive", "Shared"}
BlockModes == {"Blocking", "NonBlocking"}
Platforms  == {"unix", "windows"}

VARIABLES
    platform,   \* cfg(unix) or cfg(windows): fixed when the artifact is built
    held,       \* kernel: holder -> "None" | "Sh" | "Ex", the flock it owns
    pc,         \* holder -> "idle" | "blocked" (suspended inside flock) | "closed"
    pend,       \* holder -> flag word of the call it is suspended in, else 0
    last,       \* the most recent API event (a return or a suspension)
    prev        \* the API event before last

vars == <<platform, held, pc, pend, last, prev>>

----------------------------------------------------------------------------
\* Bitwise operations on naturals (i32 values here are all in 0..15).

RECURSIVE BitOr(_, _)
BitOr(a, b) ==
    IF a = 0 THEN b
    ELSE IF b = 0 THEN a
    ELSE (IF (a % 2 = 1) \/ (b % 2 = 1) THEN 1 ELSE 0) + 2 * BitOr(a \div 2, b \div 2)

RECURSIVE BitAnd(_, _)
BitAnd(a, b) ==
    IF a = 0 \/ b = 0 THEN 0
    ELSE (IF (a % 2 = 1) /\ (b % 2 = 1) THEN 1 ELSE 0) + 2 * BitAnd(a \div 2, b \div 2)

----------------------------------------------------------------------------
\* Flag projections of the two enumerations.

\* Mutant: both kinds project to LOCK_EX.
LockType_to_flock_flag_always_ex(lock_type) == LOCK_EX

LockType_to_flock_flag(lock_type) ==
    IF lock_type = "Exclusive" THEN LOCK_EX ELSE LOCK_SH

\* Mutant: the two arms of the match swapped.
BlockMode_to_flock_flag_swapped(block_mode) ==
    IF block_mode = "Blocking" THEN LOCK_NB ELSE 0

BlockMode_to_flock_flag(block_mode) ==
    IF block_mode = "Blocking" THEN 0 ELSE LOCK_NB

\* Mutant: the block flag is left out of the composition.
lock_flags_kind_only(lock_type, block_mode) ==
    LockType_to_flock_flag(lock_type)

\* Mutant: the two flags are combined with & instead of |.
lock_flags_and(lock_type, block_mode) ==
    BitAnd(LockType_to_flock_flag(lock_type), BlockMode_to_flock_flag(block_mode))

\* The flag word lock_file hands to flogic.
lock_flags(lock_type, block_mode) ==
    BitOr(LockType_to_flock_flag(lock_type), BlockMode_to_flock_flag(block_mode))

\* Mutant: unlock_file passes LOCK_NB, the neighbouring constant.
unlock_flags_nb == LOCK_NB

\* Mutant: unlock_file composes LOCK_UN with a kind flag.
unlock_flags_with_kind == BitOr(LOCK_UN, LOCK_EX)

\* The flag word unlock_file hands to flogic.
unlock_flags == LOCK_UN

----------------------------------------------------------------------------
\* The kernel side of flock(fd, operation), for one file.

\* The lock kind a flag word asks for, after LOCK_NB is masked off.
FlockKind(flags) ==
    LET op == flags - BitAnd(flags, LOCK_NB)
    IN  IF op = LOCK_EX THEN "Ex"
        ELSE IF op = LOCK_SH THEN "Sh"
        ELSE IF op = LOCK_UN THEN "Un"
        ELSE "Inval"

\* A request of kind k by holder h conflicts with a lock of another holder
\* when either of the two is exclusive.
Conflict(h, k, hd) ==
    \E o \in Holders \ {h} :
        /\ hd[o] # "None"
        /\ (k = "Ex" \/ hd[o] = "Ex")

\* One flock call by holder h against lock table hd.  The outcome is either a
\* return (done, with ret and the new table) or a suspension (not done).  A
\* request for a kind other than the one already owned first removes the
\* owned lock, then looks for conflicts: a conversion is not atomic.
flock(h, flags, hd) ==
    LET k       == FlockKind(flags)
        nb      == BitAnd(flags, LOCK_NB) # 0
        dropped == [hd EXCEPT ![h] = "None"]
    IN  IF k = "Inval" THEN [done |-> TRUE, ret |-> -1, held |-> hd]
        ELSE IF k = "Un" THEN [done |-> TRUE, ret |-> 0, held |-> dropped]
        ELSE IF hd[h] = k THEN [done |-> TRUE, ret |-> 0, held |-> hd]
        ELSE IF Conflict(h, k, dropped)
             THEN IF nb THEN [done |-> TRUE, ret |-> -1, held |-> dropped]
                        ELSE [done |-> FALSE, ret |-> 0, held |-> dropped]
        ELSE [done |-> TRUE, ret |-> 0, held |-> [dropped EXCEPT ![h] = k]]

----------------------------------------------------------------------------
\* flogic: the platform dispatch and the conversion of the native return.

\* Mutant: the Windows convention (zero is failure) applied to flock.
flogic_result_zero_fails(ret) == IF ret = 0 THEN "Err" ELSE "Ok"

\* Mutant: the comparison is <= instead of <.
flogic_result_le(ret) == IF ret <= 0 THEN "Err" ELSE "Ok"

\* Mutant: the comparison is against -1 instead of 0.
flogic_result_lt_minus_one(ret) == IF ret < -1 THEN "Err" ELSE "Ok"

\* if ret < 0 { Err(Error::last_os_error()) } else { Ok(()) }
flogic_result(ret) == IF ret < 0 THEN "Err" ELSE "Ok"

NoEvent ==
    [h |-> 0, fn |-> "none", flags |-> 0, calls |-> 0, rets |-> <<>>, out |-> "none"]

\* Mutant: the Windows closure lacks the todo!() and reports the call as made
\* and successful.
flogic_event_no_todo(h, fn, flags, r) ==
    [h |-> h, fn |-> fn, flags |-> flags, calls |-> 1,
     rets |-> IF r.done THEN <<r.ret>> ELSE <<>>,
     out |-> IF r.done THEN (IF r.ret < 0 THEN "Err" ELSE "Ok") ELSE "Suspended"]

\* The event a call of fn by holder h with flag word flags produces:
\* calls counts the native calls made, rets lists their return values.
flogic_event(h, fn, flags, r) ==
    IF platform = "unix"
    THEN [h |-> h, fn |-> fn, flags |-> flags, calls |-> 1,
          rets |-> IF r.done THEN <<r.ret>> ELSE <<>>,
          out |-> IF r.done THEN flogic_result(r.ret) ELSE "Suspended"]
    ELSE [h |-> h, fn |-> fn, flags |-> flags, calls |-> 0,
          rets |-> <<>>, out |-> "Panic"]

\* flogic(file, flags), called from API function fn on holder h's handle.
flogic(h, fn, flags) ==
    LET r == flock(h, flags, held)
    IN  /\ pc[h] = "idle"
        /\ prev' = last
        /\ last' = flogic_event(h, fn, flags, r)
        /\ IF platform = "unix"
           THEN /\ held' = r.held
                /\ pc' = IF r.done THEN pc ELSE [pc EXCEPT ![h] = "blocked"]
                /\ pend' = IF r.done THEN pend ELSE [pend EXCEPT ![h] = flags]
           ELSE UNCHANGED <<held, pc, pend>>
        /\ UNCHANGED platform

----------------------------------------------------------------------------
\* Public API.

lock_file(h, lock_type, block_mode) ==
    flogic(h, "lock_file", lock_flags(lock_type, block_mode))

unlock_file(h) ==
    flogic(h, "unlock_file", unlock_flags)

----------------------------------------------------------------------------
\* Environment: the kernel completing a suspended flock, and handle lifecycle.

\* The kernel grants the request holder h is suspended on once nothing
\* conflicts with it; the native call returns 0 and flogic returns Ok.
flock_wake(h) ==
    /\ pc[h] = "blocked"
    /\ ~Conflict(h, FlockKind(pend[h]), held)
    /\ held' = [held EXCEPT ![h] = FlockKind(pend[h])]
    /\ pc' = [pc EXCEPT ![h] = "idle"]
    /\ pend' = [pend EXCEPT ![h] = 0]
    /\ prev' = last
    /\ last' = [h |-> h, fn |-> "lock_file", flags |-> pend[h], calls |-> 1,
                rets |-> <<0>>, out |-> flogic_result(0)]
    /\ UNCHANGED platform

\* The caller drops (or the dying process loses) the handle: the open file
\* description goes away and with it the lock it owned.
close_file(h) ==
    /\ pc[h] = "idle"
    /\ pc' = [pc EXCEPT ![h] = "closed"]
    /\ held' = [held EXCEPT ![h] = "None"]
    /\ UNCHANGED <<platform, pend, last, prev>>

\* The caller opens the file again (File::create): a fresh description
\* that owns no lock.
open_file(h) ==
    /\ pc[h] = "closed"
    /\ pc' = [pc EXCEPT ![h] = "idle"]
    /\ UNCHANGED <<platform, held, pend, last, prev>>

----------------------------------------------------------------------------

Init ==
    /\ platform \in Platforms
    /\ held = [h \in Holders |-> "None"]
    /\ pc = [h \in Holders |-> "idle"]
    /\ pend = [h \in Holders |-> 0]
    /\ last = NoEvent
    /\ prev = NoEvent

Next ==
    \/ \E h \in Holders, k \in LockTypes, m \in BlockModes : lock_file(h, k, m)
    \/ \E h \in Holders : unlock_file(h)
    \/ \E h \in Holders : flock_wake(h)
    \/ \E h \in Holders : close_file(h)
    \/ \E h \in Holders : open_file(h)

Spec == Init /\ [][Next]_vars

\* The kernel does wake a suspended flock whose request stays grantable; it
\* promises nothing about the order in which contenders are served.
LiveSpec == Spec /\ \A h \in Holders : WF_vars(flock_wake(h))

TypeOK ==
    /\ platform \in Platforms
    /\ held \in [Holders -> {"None", "Sh", "Ex"}]
    /\ pc \in [Holders -> {"idle", "blocked", "closed"}]
    /\ pend \in [Holders -> 0..15]

----------------------------------------------------------------------------
\* Vocabulary of the properties.  A step is recognised as a call by the
\* action formula of the call itself (lock_file(h, k, m), unlock_file(h));
\* where a property ranges over every holder, the conjunct last'.h = h (the
\* new event names the caller) comes first so that the other holders are
\* dismissed without evaluating the call.

\* The event of a call that made one native call which returned ret.
Returned(h, fn, flags, ret, out) ==
    [h |-> h, fn |-> fn, flags |-> flags, calls |-> 1, rets |-> <<ret>>, out |-> out]

\* No open other than h owns a lock on the file.
NoOtherHolder(h) == \A o \in Holders \ {h} : held[o] = "None"

\* The file is in the Unlocked state.
Unlocked == \A o \in Holders : held[o] = "None"

Events == {last, prev}

----------------------------------------------------------------------------
\* C1: while holder a owns the Exclusive lock, a different holder b's
\* lock_file(Exclusive, NonBlocking) returns Err in that very step, without
\* suspending; b owns nothing afterwards and a still owns the Exclusive lock.
C1_ExclusiveNonBlockingFails ==
    [][\A a, b \in Holders :
        (a # b /\ held[a] = "Ex" /\ lock_file(b, "Exclusive", "NonBlocking"))
        => /\ last' = Returned(b, "lock_file", 6, -1, "Err")
           /\ pc'[b] = "idle"
           /\ held'[b] = "None"
           /\ held'[a] = "Ex"]_vars

C1_Witness ==
    \E a, b \in Holders :
        /\ a # b
        /\ held[a] = "Ex"
        /\ held[b] = "None"
        /\ pc[b] = "idle"
        /\ last = Returned(b, "lock_file", 6, -1, "Err")

\* C2 (POSIX branch): on a file no other holder has locked,
\* lock_file(Exclusive, NonBlocking) returns Ok and the caller owns the Exclusive lock; unlock_file
\* on the same handle right after it returns Ok and leaves the file Unlocked.
C2_LockUnlockRoundTrip ==
    /\ [][\A h \in Holders :
            (platform = "unix" /\ last'.h = h /\ NoOtherHolder(h)
                /\ lock_file(h, "Exclusive", "NonBlocking"))
            => /\ last' = Returned(h, "lock_file", 6, 0, "Ok")
               /\ held'[h] = "Ex"]_vars
    /\ [][\A h \in Holders :
            (last = Returned(h, "lock_file", 6, 0, "Ok") /\ unlock_file(h))
            => /\ last' = Returned(h, "unlock_file", 8, 0, "Ok")
               /\ \A o \in Holders : held'[o] = "None"]_vars

C2_Witness ==
    \E h \in Holders :
        /\ prev = Returned(h, "lock_file", 6, 0, "Ok")
        /\ last = Returned(h, "unlock_file", 8, 0, "Ok")
        /\ Unlocked

\* C3, the part that is about single steps: while another holder owns the
\* Exclusive lock, lock_file(Exclusive, Blocking) suspends; a call suspended on
\* an Exclusive request does not return while any other holder owns a lock;
\* and when it returns it returns Ok with the caller owning the Exclusive lock.
C3_SuspendsWhileHeld ==
    /\ [][\A a, b \in Holders :
            (a # b /\ held[a] = "Ex" /\ lock_file(b, "Exclusive", "Blocking"))
            => /\ pc'[b] = "blocked"
               /\ last'.h = b /\ last'.out = "Suspended"
               /\ held'[a] = "Ex"]_vars
    /\ [][\A b \in Holders :
            (pc[b] = "blocked" /\ pend[b] = 2 /\ ~NoOtherHolder(b))
            => pc'[b] = "blocked"]_vars
    /\ [][\A b \in Holders :
            (pc[b] = "blocked" /\ pend[b] = 2 /\ pc'[b] # "blocked")
            => /\ last' = Returned(b, "lock_file", 2, 0, "Ok")
               /\ held'[b] = "Ex"]_vars

\* b is suspended in lock_file(Exclusive, Blocking) and every other holder
\* has released (by unlock_file or by closing its handle).
C3_WaitingOnFreeFile(b) ==
    pc[b] = "blocked" /\ pend[b] = 2 /\ NoOtherHolder(b)

\* b's lock_file(Exclusive, Blocking) has returned Ok and b owns the lock.
C3_Granted(b) ==
    /\ pc[b] = "idle"
    /\ held[b] = "Ex"
    /\ last = Returned(b, "lock_file", 2, 0, "Ok")

C4_SharedCoexistExclusiveExcluded ==
    /\ [][\A h \in Holders, m \in BlockModes :
            (platform = "unix" /\ last'.h = h
                /\ (\A o \in Holders \ {h} : held[o] # "Ex")
                /\ lock_file(h, "Shared", m))
            => /\ last'.h = h /\ last'.out = "Ok"
               /\ held' = [held EXCEPT ![h] = "Sh"]]_vars
    /\ [][\A h \in Holders :
            (last'.h = h /\ ~NoOtherHolder(h)
                /\ lock_file(h, "Exclusive", "NonBlocking"))
            => last'.out = "Err" /\ held'[h] # "Ex"]_vars
    /\ [][\A h \in Holders :
            (last'.h = h /\ ~NoOtherHolder(h)
                /\ lock_file(h, "Exclusive", "Blocking"))
            => last'.out = "Suspended" /\ held'[h] # "Ex"]_vars
    /\ [][\A h \in Holders :
            (~NoOtherHolder(h) /\ held[h] # "Ex") => held'[h] # "Ex"]_vars
    /\ [](\A a, b \in Holders : (a # b /\ held[a] = "Ex") => held[b] = "None")

C4_Witness ==
    \E a, b, c \in Holders :
        /\ a # b /\ a # c /\ b # c
        /\ held[a] = "Sh" /\ held[b] = "Sh" /\ held[c] = "None"
        /\ prev.h = c /\ prev.fn = "lock_file" /\ prev.flags = 6 /\ prev.out = "Err"
        /\ last.h = c /\ last.fn = "lock_file" /\ last.flags = 2
        /\ last.out = "Suspended"

C7_UnlockWithoutLock ==
    [][\A h \in Holders :
        (platform = "unix" /\ last'.h = h /\ held[h] = "None" /\ unlock_file(h))
        => /\ last' = Returned(h, "unlock_file", 8, 0, "Ok")
           /\ held' = held
           /\ pc' = pc]_vars

C7_Witness ==
    \E h \in Holders :
        /\ prev.h = h /\ prev.fn = "unlock_file" /\ prev.out = "Ok"
        /\ last = Returned(h, "unlock_file", 8, 0, "Ok")
        /\ ~NoOtherHolder(h)

C9_FlagTable(k, m) ==
    IF k = "Exclusive" THEN (IF m = "Blocking" THEN 2 ELSE 6)
                       ELSE (IF m = "Blocking" THEN 1 ELSE 5)

C9_FlagComposition ==
    /\ [][\A h \in Holders, k \in LockTypes, m \in BlockModes :
            (last'.h = h /\ lock_file(h, k, m))
            => (last'.fn = "lock_file" /\ last'.flags = C9_FlagTable(k, m))]_vars
    /\ [][\A h \in Holders :
            (last'.h = h /\ unlock_file(h))
            => (last'.fn = "unlock_file" /\ last'.flags = 8)]_vars
    /\ [](\A e \in Events :
            /\ e.fn = "lock_file" =>
                  /\ e.flags \in {1, 2, 5, 6}
                  /\ (e.flags % 2 = 1) # ((e.flags \div 2) % 2 = 1)
                  /\ (e.flags \div 8) % 2 = 0
            /\ e.fn = "unlock_file" => e.flags = 8)

C9_Witness ==
    /\ prev.fn = "lock_file" /\ prev.flags = 5
    /\ last.fn = "unlock_file" /\ last.flags = 8

\* C10: on the POSIX branch every call makes exactly one native call, returns
\* Err exactly when that call returned a negative value and Ok exactly when
\* it returned zero or more; a call whose native call has not returned has
\* not returned either.
C10_OneNativeCallErrIffNegative ==
    platform = "unix" =>
        \A e \in Events :
            e.fn # "none" =>
                /\ e.calls = 1
                /\ Len(e.rets) <= 1
                /\ e.out \in {"Ok", "Err", "Suspended"}
                /\ e.out = "Suspended" <=> e.rets = <<>>
                /\ e.out = "Err" <=> (e.rets # <<>> /\ e.rets[1] < 0)
                /\ e.out = "Ok" <=> (e.rets # <<>> /\ e.rets[1] >= 0)

C10_Witness ==
    /\ platform = "unix"
    /\ prev.out = "Ok" /\ prev.rets = <<0>> /\ prev.calls = 1
    /\ last.out = "Err" /\ last.rets = <<-1>> /\ last.calls = 1

====
